---- MODULE Spec2Model ----
(***************************************************************************)
(* Minimum spanning arborescence engines of                                *)
(* diisilva/edmonds-minimum-spanning-arborescence:                         *)
(*   - Edmonds.msa              (src/implementation_v1.py)                 *)
(*   - DirectedMST.edmonds_msa  (src/implementation_v2.py)                 *)
(*   - DirectedMST.gabow_msa    (src/implementation_v2.py)                 *)
(*   - UnionFind                (src/implementation_v2.py)                 *)
(*                                                                         *)
(* An edge is a pair <<u, v>>; a cost map is a function on a set of edges. *)
(* A run takes one input (V, E, r, w).  With impl = "v1" the caller runs   *)
(* Edmonds().msa; with impl = "v2" the caller builds one DirectedMST and   *)
(* calls edmonds_msa and then gabow_msa on it, as the __main__ block of    *)
(* implementation_v2.py does.  Python iterates a set in an order the       *)
(* program does not control, so every "first element in iteration order"   *)
(* is a nondeterministic choice here.                                      *)
(***************************************************************************)
EXTENDS Integers, Sequences, FiniteSets, TLC

VARIABLES
    impl,       \* "v1" | "v2" | "uf": which program is running
    inV,        \* caller's vertex set V
    inE,        \* caller's edge set E
    inW,        \* caller's cost map w
    pc,         \* position of the run
    vcounter,   \* solver._vcounter
    edArgs,     \* arguments (V, E, w) of the Edmonds call being entered
    edStack,    \* suspended Edmonds calls, innermost last
    edRet,      \* edge set returned by the Edmonds call that last returned
    edStatus,   \* outcome of the top-level Edmonds call
    edErr,      \* vertices named by the Edmonds ValueError
    edSteps,    \* number of Edmonds calls entered or resumed so far
    uf,         \* UnionFind object: [p |-> parent map, r |-> rank map]
    exitLists,  \* gabow_msa: exit_lists
    active,     \* gabow_msa: active (heapq list)
    path,       \* gabow_msa: path
    recon,      \* gabow_msa: recon
    gbE,        \* gabow_msa: E after the edges into r are removed
    gbRet,      \* edge set returned by gabow_msa
    gbStatus,   \* outcome of gabow_msa
    ufComp,     \* history: element -> least element connected to it by the unions made
    ufLast      \* history: the last UnionFind call, what it returned, and
                \* whether its arguments were in different components before it

vars == <<impl, inV, inE, inW, pc, vcounter, edArgs, edStack, edRet, edStatus,
          edErr, edSteps, uf, exitLists, active, path, recon, gbE, gbRet,
          gbStatus, ufComp, ufLast>>

edVars == <<vcounter, edArgs, edStack, edRet, edStatus, edErr, edSteps>>
gbVars == <<uf, exitLists, active, path, recon, gbE, gbRet, gbStatus>>
inVars == <<impl, inV, inE, inW>>
ufVars == <<ufComp, ufLast>>

-----------------------------------------------------------------------------
(* Bounds of the model and constants of the program *)

MaxEdges == 4
MaxCost == 2
UFSize == 4
Root == 0
InitialCounter == -1

\* Vertex sets of the generated inputs: identifiers from 0 up, and a set in
\* which the caller uses a negative identifier.
VertexSets == {{0, 1, 2}}
VertexSetsAnyIds == {{0, 1, 2}, {-1, 0, 1}}

-----------------------------------------------------------------------------
(* Generic helpers *)

Src(e) == e[1]
Dst(e) == e[2]

RECURSIVE SumCost(_, _)
SumCost(w, S) ==
    IF S = {} THEN 0
    ELSE LET e == CHOOSE x \in S : TRUE IN w[e] + SumCost(w, S \ {e})

RECURSIVE Perms(_)
Perms(S) ==
    IF S = {} THEN {<<>>}
    ELSE UNION {{<<x>> \o p : p \in Perms(S \ {x})} : x \in S}

Put(f, k, v) == [x \in (DOMAIN f) \cup {k} |-> IF x = k THEN v ELSE f[x]]

Range(f) == {f[x] : x \in DOMAIN f}

EmptyMap == [x \in {} |-> 0]

-----------------------------------------------------------------------------
(* Inputs *)

Graph(V, w) == [V |-> V, E |-> DOMAIN w, w |-> w]

\* The edge sets tried on a vertex set: at most MaxEdges ordered pairs of its
\* vertices, self-loops and edges into the root included.
EdgeSets(V) == {X \in SUBSET (V \X V) : Cardinality(X) <= MaxEdges}

\* The cost maps tried on an edge set: integer costs in 1..MaxCost.
CostMaps(E) == [E -> 1..MaxCost]

\* The four inputs documented at the end of implementation_v1.py; the costs
\* of the fourth (1.0, 2.0, 1.5, 1.0, 0.5) are doubled to stay in the integers.
Example1 == Graph(0..3, (<<0, 1>> :> 1) @@ (<<1, 2>> :> 2) @@ (<<2, 3>> :> 3))
Example2 == Graph(0..2, (<<0, 1>> :> 5) @@ (<<1, 2>> :> 3) @@ (<<2, 0>> :> 4))
Example3 == Graph(0..2, (<<0, 1>> :> 1))
Example4 == Graph(0..3, (<<0, 1>> :> 2) @@ (<<0, 2>> :> 4) @@ (<<1, 3>> :> 3)
                          @@ (<<2, 3>> :> 2) @@ (<<3, 1>> :> 1))

ExampleInputs == {Example1, Example2, Example3, Example4}

-----------------------------------------------------------------------------
(* Edmonds (Chu-Liu/Edmonds): Edmonds.msa and DirectedMST.edmonds_msa *)

RemoveRootEdges(E, r) == {e \in E : Dst(e) # r}

RestrictCost(w, E) == [e \in E |-> w[e]]

Incoming(E, v) == {e \in E : Dst(e) = v}

\* min(inc, key=lambda e: w[e]) returns the first edge of least cost in the
\* iteration order of the set: any edge of least cost.
MinIncoming(E, w, v) ==
    {e \in Incoming(E, v) : \A f \in Incoming(E, v) : w[e] <= w[f]}

NoIncoming(V, E, r) == {v \in V \ {r} : Incoming(E, v) = {}}

PiChoices(V, E, r, w) ==
    {pi \in [V \ {r} -> E] : \A v \in V \ {r} : pi[v] \in MinIncoming(E, w, v)}

\* The walk "while cur not in seen and cur != r".
RECURSIVE Walk(_, _, _, _)
Walk(pi, r, cur, seen) ==
    IF cur \in seen \/ cur = r THEN [cur |-> cur, seen |-> seen]
    ELSE Walk(pi, r, Src(pi[cur]), seen \cup {cur})

\* The values cycle_start can take: the loop stops at the first v, in the
\* iteration order of V - {r}, whose walk ends inside its own seen set.
CycleStarts(V, r, pi) ==
    {Walk(pi, r, v, {}).cur : v \in {x \in V \ {r} :
        LET wk == Walk(pi, r, x, {}) IN wk.cur \in wk.seen}}

RECURSIVE CollectCycle(_, _, _)
CollectCycle(pi, cur, C) ==
    IF cur \in C THEN C ELSE CollectCycle(pi, Src(pi[cur]), C \cup {cur})

CycleOf(pi, start) == CollectCycle(pi, Src(pi[start]), {start})

\* VPrime with the cycle's vertices left in the contracted graph.
VPrimeKeepCycle(V, C, vc) == V \cup {vc}

VPrime(V, C, vc) == (V \ C) \cup {vc}

\* The edges the contraction loop rewrites (edges inside C match no branch).
Crossing(E, C) == {e \in E : ~(Src(e) \in C /\ Dst(e) \in C)}

EdgeKind(e, C) ==
    IF Src(e) \notin C /\ Dst(e) \in C THEN "in"
    ELSE IF Src(e) \in C /\ Dst(e) \notin C THEN "out"
    ELSE "ext"

ContractedEdge(e, C, vc) ==
    CASE EdgeKind(e, C) = "in" -> <<Src(e), vc>>
      [] EdgeKind(e, C) = "out" -> <<vc, Dst(e)>>
      [] OTHER -> e

EPrime(E, C, vc) == {ContractedEdge(e, C, vc) : e \in Crossing(E, C)}

\* One pass of the loop body for an edge e that lands on one key of wp/corr.
\* acc.c is <<>> while corr has no entry for the key.
ContractStep(acc, e, w, pi, C) ==
    LET cost == w[e]
        adj == cost - w[pi[Dst(e)]]
    IN CASE EdgeKind(e, C) = "in" ->
              IF ~acc.has \/ acc.w > adj
              THEN [has |-> TRUE, w |-> adj, c |-> <<e>>] ELSE acc
         [] EdgeKind(e, C) = "out" ->
              IF ~acc.has \/ acc.w > cost
              THEN [has |-> TRUE, w |-> cost, c |-> <<e>>] ELSE acc
         [] OTHER -> [has |-> TRUE, w |-> cost, c |-> acc.c]

RECURSIVE ContractFold(_, _, _, _, _)
ContractFold(acc, order, w, pi, C) ==
    IF order = <<>> THEN acc
    ELSE ContractFold(ContractStep(acc, Head(order), w, pi, C), Tail(order), w, pi, C)

\* What wp/corr can hold for key k after "for (u, v) in E": the edges landing
\* on k are met in the iteration order of E.
KeyOutcomes(k, E, w, pi, C, vc) ==
    LET group == {e \in Crossing(E, C) : ContractedEdge(e, C, vc) = k}
    IN {ContractFold([has |-> FALSE, w |-> 0, c |-> <<>>], order, w, pi, C) :
            order \in Perms(group)}

\* The (wp, corr) pairs the contraction loop can build.
Contractions(E, w, pi, C, vc) ==
    LET Ep == EPrime(E, C, vc)
        all == UNION {KeyOutcomes(k, E, w, pi, C, vc) : k \in Ep}
        picks == {f \in [Ep -> all] :
                     \A k \in Ep : f[k] \in KeyOutcomes(k, E, w, pi, C, vc)}
    IN {[wp |-> [k \in Ep |-> f[k].w],
         corr |-> [k \in {x \in Ep : f[x].c # <<>>} |-> f[k].c[1]]] : f \in picks}

\* Re-expansion (step 8).  entering: the edges of treep the first loop can
\* stop at.
EnteringVc(treep, vc) == {e \in treep : Dst(e) = vc}

Reexpand(treep, chosen, pi, C, vc) ==
    {IF Dst(e) = vc THEN chosen ELSE e : e \in treep}
        \cup {pi[v] : v \in {x \in C : pi[x] # chosen}}

-----------------------------------------------------------------------------
(* UnionFind *)

UFInit(elems) == [p |-> [v \in elems |-> v], r |-> [v \in elems |-> 0]]

\* find with path compression: the parent map after the call and the
\* representative returned.
RECURSIVE UFFind(_, _)
UFFind(p, x) ==
    IF p[x] # x
    THEN LET up == UFFind(p, p[x])
         IN [p |-> [up.p EXCEPT ![x] = up.root], root |-> up.root]
    ELSE [p |-> p, root |-> x]

\* UFUnion linking b itself, not its representative, under a.
UFUnionNoFind(u, a, b) ==
    IF UFFind(u.p, a).root = UFFind(u.p, b).root
    THEN [uf |-> u, ret |-> FALSE]
    ELSE [uf |-> [p |-> [u.p EXCEPT ![b] = a], r |-> u.r], ret |-> TRUE]

\* union by rank: the object after the call and the value returned.
UFUnion(u, a, b) ==
    LET fa == UFFind(u.p, a)
        fb == UFFind(fa.p, b)
        swap == u.r[fa.root] < u.r[fb.root]
        ra == IF swap THEN fb.root ELSE fa.root
        rb == IF swap THEN fa.root ELSE fb.root
    IN IF fa.root = fb.root
       THEN [uf |-> [p |-> fb.p, r |-> u.r], ret |-> FALSE]
       ELSE [uf |-> [p |-> [fb.p EXCEPT ![rb] = ra],
                     r |-> IF u.r[ra] = u.r[rb]
                           THEN [u.r EXCEPT ![ra] = @ + 1] ELSE u.r],
             ret |-> TRUE]

-----------------------------------------------------------------------------
(* heapq on a list of (cost, u, v) tuples; position 1 is heap[0] *)

\* Python's tuple order.
TupleLess(x, y) ==
    \/ x[1] < y[1]
    \/ x[1] = y[1] /\ x[2] < y[2]
    \/ x[1] = y[1] /\ x[2] = y[2] /\ x[3] < y[3]

RECURSIVE SiftDownFrom(_, _, _, _)
SiftDownFrom(h, startpos, pos, newitem) ==
    IF pos > startpos /\ TupleLess(newitem, h[pos \div 2])
    THEN SiftDownFrom([h EXCEPT ![pos] = h[pos \div 2]], startpos, pos \div 2, newitem)
    ELSE [h EXCEPT ![pos] = newitem]

\* heapq._siftdown
SiftDown(h, startpos, pos) == SiftDownFrom(h, startpos, pos, h[pos])

RECURSIVE SiftUpFrom(_, _, _, _)
SiftUpFrom(h, startpos, pos, newitem) ==
    LET child == 2 * pos
        pick == IF child + 1 <= Len(h) /\ ~TupleLess(h[child], h[child + 1])
                THEN child + 1 ELSE child
    IN IF child <= Len(h)
       THEN SiftUpFrom([h EXCEPT ![pos] = h[pick]], startpos, pick, newitem)
       ELSE SiftDown([h EXCEPT ![pos] = newitem], startpos, pos)

\* heapq._siftup
SiftUp(h, pos) == SiftUpFrom(h, pos, pos, h[pos])

HeapPush(h, item) == SiftDown(Append(h, item), 1, Len(h) + 1)

\* heappop of a non-empty heap: the item returned and the heap left.
HeapPop(h) ==
    LET last == h[Len(h)]
        rest == SubSeq(h, 1, Len(h) - 1)
    IN IF rest # <<>>
       THEN [item |-> rest[1], heap |-> SiftUp([rest EXCEPT ![1] = last], 1)]
       ELSE [item |-> last, heap |-> <<>>]

RECURSIVE HeapifyFrom(_, _)
HeapifyFrom(h, i) == IF i < 1 THEN h ELSE HeapifyFrom(SiftUp(h, i), i - 1)

Heapify(h) == HeapifyFrom(h, Len(h) \div 2)

\* An exit list is only ever emptied by heappop, pushed to, or shifted by one
\* delta as a whole, so its layout is never observed: it is kept here in the
\* order heappop would deliver it.
RECURSIVE InsertSorted(_, _)
InsertSorted(s, x) ==
    IF s = <<>> THEN <<x>>
    ELSE IF TupleLess(x, Head(s)) THEN <<x>> \o s
    ELSE <<Head(s)>> \o InsertSorted(Tail(s), x)

RECURSIVE PushAll(_, _)
PushAll(s, items) ==
    IF items = {} THEN s
    ELSE LET x == CHOOSE y \in items : TRUE
         IN PushAll(InsertSorted(s, x), items \ {x})

Entry(w, e) == <<w[e], Src(e), Dst(e)>>

-----------------------------------------------------------------------------
(* Gabow et al.: DirectedMST.gabow_msa *)

\* "while exit_lists[head]: heappush(active, heappop(exit_lists[head]))"
RECURSIVE Drain(_, _)
Drain(act, ex) ==
    IF ex = <<>> THEN act ELSE Drain(HeapPush(act, Head(ex)), Tail(ex))

InPath(x, pth) == \E i \in 1..Len(pth) : pth[i] = x

\* idx = max(i for i, p in enumerate(path) if p == cu), as a position from 1.
LastIndex(pth, cu) ==
    CHOOSE i \in 1..Len(pth) :
        /\ pth[i] = cu
        /\ \A j \in 1..Len(pth) : pth[j] = cu => j <= i

ShiftAll(list, delta) == [i \in 1..Len(list) |-> <<list[i][1] - delta, list[i][2], list[i][3]>>]

RECURSIVE DropTarget(_, _)
DropTarget(list, z) ==
    IF list = <<>> THEN <<>>
    ELSE IF Head(list)[3] # z THEN <<Head(list)>> \o DropTarget(Tail(list), z)
    ELSE DropTarget(Tail(list), z)

\* "for z in prefix: ... adjust costs": st = [ok, ex, act]; ok turns FALSE at
\* the first KeyError (recon[z], or w[(pu, pv)] for an edge removed from w).
RECURSIVE AdjustPrefix(_, _, _, _, _)
AdjustPrefix(st, prefix, rec, E, w) ==
    IF prefix = <<>> \/ ~st.ok THEN st
    ELSE LET z == Head(prefix)
         IN IF z \notin DOMAIN rec \/ rec[z] \notin E
            THEN [st EXCEPT !.ok = FALSE]
            ELSE LET delta == w[rec[z]]
                 IN AdjustPrefix(
                        [ok |-> TRUE,
                         ex |-> [st.ex EXCEPT ![z] = ShiftAll(st.ex[z], delta)],
                         act |-> Heapify(ShiftAll(DropTarget(st.act, z), delta))],
                        Tail(prefix), rec, E, w)

\* "for z in prefix: uf.union(cu, z)"
RECURSIVE UnionPrefix(_, _, _)
UnionPrefix(u, cu, prefix) ==
    IF prefix = <<>> THEN u
    ELSE UnionPrefix(UFUnion(u, cu, Head(prefix)).uf, cu, Tail(prefix))

\* "best = {} ...; active = list(best.values())": one entry per source a, in
\* the order the sources are first met, the first of least cost kept.
RECURSIVE BestPerSource(_, _)
BestPerSource(best, list) ==
    IF list = <<>> THEN best
    ELSE LET x == Head(list)
             at == {i \in 1..Len(best) : best[i][2] = x[2]}
             i == CHOOSE j \in at : TRUE
         IN BestPerSource(
                IF at = {} THEN Append(best, x)
                ELSE IF x[1] < best[i][1] THEN [best EXCEPT ![i] = x]
                ELSE best,
                Tail(list))

\* "mu = uf.find(u); if mu not in path: path.insert(0, mu)"
FrontInsert(pth, mu) == IF InPath(mu, pth) THEN pth ELSE <<mu>> \o pth

-----------------------------------------------------------------------------
(* Initial states *)

IdleUF == [p |-> EmptyMap, r |-> EmptyMap]

NoCall == [op |-> "none", a |-> 0, b |-> 0, root |-> 0, ret |-> FALSE, apart |-> FALSE]

InitGraph(g) ==
    \E i \in {"v1", "v2"} :
        /\ impl = i
        /\ inV = g.V
        /\ inE = g.E
        /\ inW = g.w
        /\ pc = "ed_call"
        /\ vcounter = InitialCounter
        /\ edArgs = [V |-> g.V, E |-> g.E, w |-> g.w]
        /\ edStack = <<>>
        /\ edRet = {}
        /\ edStatus = "running"
        /\ edErr = {}
        /\ edSteps = 1
        /\ uf = IdleUF
        /\ exitLists = EmptyMap
        /\ active = <<>>
        /\ path = <<>>
        /\ recon = EmptyMap
        /\ gbE = {}
        /\ gbRet = {}
        /\ gbStatus = "idle"
        /\ ufComp = EmptyMap
        /\ ufLast = NoCall

\* A documented example, or any graph on one of the vertex sets.
InitWith(vertexSets) ==
    \/ \E g \in ExampleInputs : InitGraph(g)
    \/ \E V \in vertexSets : \E E \in EdgeSets(V) : \E w \in CostMaps(E) :
          InitGraph(Graph(V, w))

Init == InitWith(VertexSets)

InitAnyIds == InitWith(VertexSetsAnyIds)

-----------------------------------------------------------------------------
(* Edmonds actions: one per way a call can leave its body *)

\* Where the run goes once the top-level Edmonds call has returned or raised.
AfterEdmonds == IF impl = "v2" THEN "gb_start" ELSE "done"

\* The locals E and w after "remove edges into the root".
CallE == RemoveRootEdges(edArgs.E, Root)
CallW == RestrictCost(edArgs.w, CallE)

\* Step 2/3: a vertex other than r has no incoming edge: ValueError.  v1
\* names the whole set, v2 the first such vertex it meets.  Nothing catches
\* the exception, so every suspended call is abandoned.
EdmondsUnreachable ==
    /\ pc = "ed_call"
    /\ NoIncoming(edArgs.V, CallE, Root) # {}
    /\ \E v \in NoIncoming(edArgs.V, CallE, Root) :
          edErr' = IF impl = "v1" THEN NoIncoming(edArgs.V, CallE, Root) ELSE {v}
    /\ edStatus' = "ValueError"
    /\ edStack' = <<>>
    /\ pc' = AfterEdmonds
    /\ UNCHANGED <<vcounter, edArgs, edRet, edSteps>>
    /\ UNCHANGED <<inVars, gbVars, ufVars>>

\* Step 4/5: pi has no cycle: return set(pi.values()).
EdmondsBase ==
    /\ pc = "ed_call"
    /\ NoIncoming(edArgs.V, CallE, Root) = {}
    /\ \E pi \in PiChoices(edArgs.V, CallE, Root, CallW) :
          /\ CycleStarts(edArgs.V, Root, pi) = {}
          /\ edRet' = Range(pi)
    /\ edStatus' = IF edStack = <<>> THEN "returned" ELSE edStatus
    /\ pc' = IF edStack = <<>> THEN AfterEdmonds ELSE "ed_ret"
    /\ UNCHANGED <<vcounter, edArgs, edStack, edErr, edSteps>>
    /\ UNCHANGED <<inVars, gbVars, ufVars>>

\* Steps 5-7: a cycle C of pi is contracted into v_c and the call recurses.
EdmondsContract ==
    /\ pc = "ed_call"
    /\ NoIncoming(edArgs.V, CallE, Root) = {}
    /\ \E pi \in PiChoices(edArgs.V, CallE, Root, CallW) :
       \E start \in CycleStarts(edArgs.V, Root, pi) :
          LET C == CycleOf(pi, start)
              vc == vcounter
          IN \E ct \in Contractions(CallE, CallW, pi, C, vc) :
                /\ edStack' = Append(edStack,
                       [V |-> edArgs.V, E |-> CallE, pi |-> pi, C |-> C,
                        vc |-> vc, corr |-> ct.corr])
                /\ edArgs' = [V |-> VPrime(edArgs.V, C, vc),
                              E |-> EPrime(CallE, C, vc), w |-> ct.wp]
    /\ vcounter' = vcounter - 1
    /\ edSteps' = edSteps + 1
    /\ UNCHANGED <<pc, edRet, edStatus, edErr>>
    /\ UNCHANGED <<inVars, gbVars, ufVars>>

TopFrame == edStack[Len(edStack)]

\* Steps 8-10: the recursive call returned treep; the suspended call maps the
\* edge entering v_c back through corr and adds the cycle edges.
EdmondsExpand ==
    /\ pc = "ed_ret"
    /\ edStack # <<>>
    /\ \E e0 \in EnteringVc(edRet, TopFrame.vc) :
          /\ e0 \in DOMAIN TopFrame.corr
          /\ edRet' = Reexpand(edRet, TopFrame.corr[e0], TopFrame.pi,
                               TopFrame.C, TopFrame.vc)
    /\ edStack' = SubSeq(edStack, 1, Len(edStack) - 1)
    /\ edStatus' = IF Len(edStack) = 1 THEN "returned" ELSE edStatus
    /\ pc' = IF Len(edStack) = 1 THEN AfterEdmonds ELSE "ed_ret"
    /\ edSteps' = edSteps + 1
    /\ UNCHANGED <<vcounter, edArgs, edErr>>
    /\ UNCHANGED <<inVars, gbVars, ufVars>>

\* Step 8 failing: the edge entering v_c the loop stops at has no entry in
\* corr (KeyError), or no edge of treep enters v_c and chosen is never bound
\* (UnboundLocalError at "e != chosen").
EdmondsExpandError ==
    /\ pc = "ed_ret"
    /\ edStack # <<>>
    /\ \/ EnteringVc(edRet, TopFrame.vc) = {}
       \/ \E e0 \in EnteringVc(edRet, TopFrame.vc) : e0 \notin DOMAIN TopFrame.corr
    /\ edStatus' = IF EnteringVc(edRet, TopFrame.vc) = {}
                   THEN "UnboundLocalError" ELSE "KeyError"
    /\ edStack' = <<>>
    /\ pc' = AfterEdmonds
    /\ edSteps' = edSteps + 1
    /\ UNCHANGED <<vcounter, edArgs, edRet, edErr>>
    /\ UNCHANGED <<inVars, gbVars, ufVars>>

EdmondsNext ==
    \/ EdmondsUnreachable
    \/ EdmondsBase
    \/ EdmondsContract
    \/ EdmondsExpand
    \/ EdmondsExpandError

-----------------------------------------------------------------------------
(* Gabow actions: the set-up, one per way an iteration of the main loop can
   end, and the return *)

\* Lines 149-163.
GabowStart ==
    /\ pc = "gb_start"
    /\ uf' = UFInit(inV)
    /\ exitLists' = [v \in inV |->
                        IF v = Root
                        THEN PushAll(<<>>, {Entry(inW, e) : e \in Incoming(inE, Root)})
                        ELSE <<>>]
    /\ gbE' = RemoveRootEdges(inE, Root)
    /\ path' = <<Root>>
    /\ active' = <<>>
    /\ recon' = EmptyMap
    /\ gbStatus' = "running"
    /\ pc' = "gb_loop"
    /\ UNCHANGED gbRet
    /\ UNCHANGED <<inVars, edVars, ufVars>>

GabowLooping == pc = "gb_loop" /\ Cardinality(DOMAIN recon) < Cardinality(inV)

\* The locals of one iteration, up to "recon[cv] = (u, v)".
GbHead == path[Len(path)]
GbDrained == Drain(active, exitLists[GbHead])
GbExits == [exitLists EXCEPT ![GbHead] = <<>>]
GbPop == HeapPop(GbDrained)
GbU == GbPop.item[2]
GbV == GbPop.item[3]
GbFindU == UFFind(uf.p, GbU)
GbFindV == UFFind(GbFindU.p, GbV)
GbCu == GbFindU.root
GbCv == GbFindV.root
GbRecon == Put(recon, GbCv, <<GbU, GbV>>)

\* active is empty once the head's exit list is drained: ValueError.
GabowDisconnected ==
    /\ GabowLooping
    /\ GbDrained = <<>>
    /\ gbStatus' = "ValueError"
    /\ pc' = "done"
    /\ UNCHANGED <<uf, exitLists, active, path, recon, gbE, gbRet>>
    /\ UNCHANGED <<inVars, edVars, ufVars>>

\* The component of u is not on the path: seed its exit list, extend the path.
GabowExpand ==
    /\ GabowLooping
    /\ GbDrained # <<>>
    /\ ~InPath(GbCu, path)
    /\ exitLists' = [GbExits EXCEPT
                        ![GbCu] = PushAll(@, {Entry(inW, e) : e \in Incoming(gbE, GbU)})]
    /\ active' = GbPop.heap
    /\ recon' = GbRecon
    /\ LET mu == UFFind(GbFindV.p, GbU)
       IN /\ path' = FrontInsert(Append(path, GbCu), mu.root)
          /\ uf' = [p |-> mu.p, r |-> uf.r]
    /\ UNCHANGED <<pc, gbE, gbRet, gbStatus>>
    /\ UNCHANGED <<inVars, edVars, ufVars>>

GbIdx == LastIndex(path, GbCu)
GbPrefix == SubSeq(path, GbIdx + 1, Len(path))
GbAdjusted ==
    AdjustPrefix([ok |-> TRUE, ex |-> GbExits, act |-> GbPop.heap],
                 GbPrefix, GbRecon, gbE, inW)

\* The component of u is on the path: contract the path after it.
GabowContract ==
    /\ GabowLooping
    /\ GbDrained # <<>>
    /\ InPath(GbCu, path)
    /\ GbAdjusted.ok
    /\ exitLists' = GbAdjusted.ex
    /\ active' = Heapify(BestPerSource(<<>>, GbAdjusted.act))
    /\ recon' = GbRecon
    /\ LET merged == UnionPrefix([p |-> GbFindV.p, r |-> uf.r], GbCu, GbPrefix)
           mu == UFFind(merged.p, GbU)
       IN /\ path' = FrontInsert(SubSeq(path, 1, GbIdx), mu.root)
          /\ uf' = [p |-> mu.p, r |-> merged.r]
    /\ UNCHANGED <<pc, gbE, gbRet, gbStatus>>
    /\ UNCHANGED <<inVars, edVars, ufVars>>

\* The contraction looks up recon[z] or w[(pu, pv)] and the key is missing:
\* KeyError leaves gabow_msa; its locals are dropped.
GabowContractError ==
    /\ GabowLooping
    /\ GbDrained # <<>>
    /\ InPath(GbCu, path)
    /\ ~GbAdjusted.ok
    /\ gbStatus' = "KeyError"
    /\ pc' = "done"
    /\ UNCHANGED <<uf, exitLists, active, path, recon, gbE, gbRet>>
    /\ UNCHANGED <<inVars, edVars, ufVars>>

\* Line 214.
GabowReturn ==
    /\ pc = "gb_loop"
    /\ Cardinality(DOMAIN recon) >= Cardinality(inV)
    /\ gbRet' = {e \in Range(recon) : Dst(e) # Root}
    /\ gbStatus' = "returned"
    /\ pc' = "done"
    /\ UNCHANGED <<uf, exitLists, active, path, recon, gbE>>
    /\ UNCHANGED <<inVars, edVars, ufVars>>

-----------------------------------------------------------------------------
(* UnionFind on its own: any sequence of find and union calls *)

UFElems == 0..(UFSize - 1)

InitUF ==
    /\ impl = "uf"
    /\ inV = UFElems
    /\ inE = {}
    /\ inW = EmptyMap
    /\ pc = "uf"
    /\ vcounter = InitialCounter
    /\ edArgs = [V |-> {}, E |-> {}, w |-> EmptyMap]
    /\ edStack = <<>>
    /\ edRet = {}
    /\ edStatus = "idle"
    /\ edErr = {}
    /\ edSteps = 0
    /\ uf = UFInit(UFElems)
    /\ exitLists = EmptyMap
    /\ active = <<>>
    /\ path = <<>>
    /\ recon = EmptyMap
    /\ gbE = {}
    /\ gbRet = {}
    /\ gbStatus = "idle"
    /\ ufComp = [v \in UFElems |-> v]
    /\ ufLast = NoCall

Least(S) == CHOOSE x \in S : \A y \in S : x <= y

\* The components after a and b are joined.
Joined(comp, a, b) ==
    [v \in DOMAIN comp |->
        IF comp[v] \in {comp[a], comp[b]} THEN Least({comp[a], comp[b]}) ELSE comp[v]]

UFCallFind ==
    /\ pc = "uf"
    /\ \E x \in UFElems :
          LET f == UFFind(uf.p, x)
          IN /\ uf' = [p |-> f.p, r |-> uf.r]
             /\ ufLast' = [op |-> "find", a |-> x, b |-> x, root |-> f.root,
                           ret |-> FALSE, apart |-> FALSE]
    /\ UNCHANGED ufComp
    /\ UNCHANGED <<inVars, pc, edVars, exitLists, active, path, recon, gbE, gbRet, gbStatus>>

UFCallUnion ==
    /\ pc = "uf"
    /\ \E a \in UFElems, b \in UFElems :
          LET u == UFUnion(uf, a, b)
          IN /\ uf' = u.uf
             /\ ufLast' = [op |-> "union", a |-> a, b |-> b, root |-> 0,
                           ret |-> u.ret, apart |-> ufComp[a] # ufComp[b]]
             /\ ufComp' = Joined(ufComp, a, b)
    /\ UNCHANGED <<inVars, pc, edVars, exitLists, active, path, recon, gbE, gbRet, gbStatus>>

NextUF ==
    \/ UFCallFind
    \/ UFCallUnion

SpecUF == InitUF /\ [][NextUF]_vars

-----------------------------------------------------------------------------
(* The engines *)

Next ==
    \/ EdmondsUnreachable
    \/ EdmondsBase
    \/ EdmondsContract
    \/ EdmondsExpand
    \/ EdmondsExpandError
    \/ GabowStart
    \/ GabowDisconnected
    \/ GabowExpand
    \/ GabowContract
    \/ GabowContractError
    \/ GabowReturn

Spec == Init /\ [][Next]_vars

\* The Edmonds engine alone (the run stops where a Gabow call would start),
\* on inputs that may use a negative vertex identifier.
SpecAnyIds == InitAnyIds /\ [][EdmondsNext]_vars

-----------------------------------------------------------------------------
(* Reference notions the claims are stated with *)

RECURSIVE ReachFrom(_, _)
ReachFrom(S, E) ==
    LET more == S \cup {Dst(e) : e \in {x \in E : Src(x) \in S}}
    IN IF more = S THEN S ELSE ReachFrom(more, E)

\* Every vertex of V is reachable from r by a directed path of E.
AllReachable(V, E, r) == V \subseteq ReachFrom({r}, E)

\* T gives every vertex but r exactly one incoming edge and r none.
OneIncomingEach(T, V, r) ==
    /\ \A v \in V \ {r} : Cardinality({e \in T : Dst(e) = v}) = 1
    /\ \A e \in T : Dst(e) # r

\* The spanning arborescences of (V, E) rooted at r, by enumeration.
Arborescences(V, E, r) ==
    {T \in SUBSET E :
        /\ Cardinality(T) = Cardinality(V) - 1
        /\ OneIncomingEach(T, V, r)
        /\ AllReachable(V, T, r)}

MinArborescenceCost(V, E, r, w) ==
    LET costs == {SumCost(w, T) : T \in Arborescences(V, E, r)}
    IN CHOOSE c \in costs : \A d \in costs : c <= d

InputReachable == AllReachable(inV, inE, Root)

EdmondsDone == edStatus \notin {"idle", "running"}
GabowDone == gbStatus \notin {"idle", "running"}

\* A returned edge set is a minimum spanning arborescence of the input.
IsMinimumResult(T) ==
    /\ Cardinality(T) = Cardinality(inV) - 1
    /\ T \subseteq inE
    /\ SumCost(inW, T) = MinArborescenceCost(inV, inE, Root, inW)

\* The graph a suspended call i passed to the call it is waiting for: the
\* next suspended call's V and E, or those of the call being entered.
HasChild(i) == i < Len(edStack) \/ pc = "ed_call"
ChildV(i) == IF i < Len(edStack) THEN edStack[i + 1].V ELSE edArgs.V
ChildE(i) == IF i < Len(edStack) THEN edStack[i + 1].E ELSE edArgs.E

-----------------------------------------------------------------------------
(* Claims *)

\* C1: on every input whose vertices are all reachable from r, the Edmonds
\* engine returns |V|-1 edges of E whose total cost is the minimum over all
\* spanning arborescences rooted at r.
C1_EdmondsMinimum ==
    (EdmondsDone /\ InputReachable) =>
        (edStatus = "returned" /\ IsMinimumResult(edRet))

\* C2: on every input whose vertices are all reachable from r, gabow_msa
\* returns (does not fail) |V|-1 edges of E of minimum total cost; on the
\* chain 0 -> 1 -> 2 -> 3 it returns the three chain edges.
C2_GabowMinimum ==
    (GabowDone /\ InputReachable) =>
        /\ gbStatus = "returned"
        /\ IsMinimumResult(gbRet)
        /\ (inV = Example1.V /\ inE = Example1.E) => gbRet = Example1.E

\* C3: on every input whose vertices are all reachable from r, edmonds_msa
\* and gabow_msa both return an edge set and the two have equal total cost
\* under w.
C3_EnginesAgree ==
    (impl = "v2" /\ pc = "done" /\ InputReachable) =>
        /\ edStatus = "returned"
        /\ gbStatus = "returned"
        /\ edRet \subseteq inE
        /\ gbRet \subseteq inE
        /\ SumCost(inW, edRet) = SumCost(inW, gbRet)

\* C4: in every returned edge set each non-root vertex is the target of
\* exactly one edge and no edge targets the root, also after a contracted
\* cycle is re-expanded.
C4_OneIncomingEdge ==
    /\ edStatus = "returned" => OneIncomingEach(edRet, inV, Root)
    /\ gbStatus = "returned" => OneIncomingEach(gbRet, inV, Root)

\* C5: every edge returned by a top-level call is an edge of the caller's E;
\* none has a synthetic vertex as an endpoint.
C5_OriginalEdgesOnly ==
    /\ edStatus = "returned" => edRet \subseteq inE
    /\ gbStatus = "returned" => gbRet \subseteq inE

\* C6: the Edmonds engine raises the unreachable-vertex ValueError exactly
\* when some non-root vertex is not reachable from r; a vertex of the input
\* with no incoming edge is named by the error; and when every vertex is
\* reachable the call raises nothing.
C6_UnreachableError ==
    EdmondsDone =>
        /\ edStatus = "ValueError" <=> ~InputReachable
        /\ InputReachable => edStatus = "returned"
        /\ NoIncoming(inV, RemoveRootEdges(inE, Root), Root) # {} =>
              /\ edErr # {}
              /\ edErr \subseteq NoIncoming(inV, RemoveRootEdges(inE, Root), Root)

\* C7: gabow_msa fails only with the disconnected-graph ValueError, and only
\* when the graph has no spanning arborescence rooted at r; no lookup of
\* recon[z] or of the cost of its chosen edge fails.
C7_GabowFailures ==
    GabowDone =>
        /\ gbStatus \in {"returned", "ValueError"}
        /\ gbStatus = "ValueError" => Arborescences(inV, inE, Root) = {}

\* C8 as stated: every recursive call is made on a graph with strictly fewer
\* vertices than its caller's, every contracted cycle having at least 2
\* vertices, so the recursion is at most |V| deep.
C8_StrictlyFewerVertices ==
    /\ \A i \in 1..Len(edStack) :
          /\ Cardinality(edStack[i].C) >= 2
          /\ HasChild(i) => Cardinality(ChildV(i)) < Cardinality(edStack[i].V)
    /\ Len(edStack) <= Cardinality(inV)

\* A call at its entry can raise, return or recurse: the guard of
\* EdmondsUnreachable, of EdmondsBase or of EdmondsContract holds.
CallCanProceed ==
    \/ NoIncoming(edArgs.V, CallE, Root) # {}
    \/ \E pi \in PiChoices(edArgs.V, CallE, Root, CallW) :
          \/ CycleStarts(edArgs.V, Root, pi) = {}
          \/ \E start \in CycleStarts(edArgs.V, Root, pi) :
                Contractions(CallE, CallW, pi, CycleOf(pi, start), vcounter) # {}

\* C8 as amended: every recursive call is made on a graph with strictly
\* fewer edges than its caller's and at most |V| - |C| + 1 vertices, where
\* the contracted cycle C has at least 1 vertex; so at most |E| calls are
\* suspended, a call is entered or resumed at most 2|E| + 1 times, and a
\* running top-level call can always take its next step: at the entry of a
\* call it raises, returns or recurses, and when a recursive call has
\* returned the suspended caller returns or raises.
C8_RecursionShrinks ==
    /\ \A i \in 1..Len(edStack) :
          /\ Cardinality(edStack[i].C) >= 1
          /\ HasChild(i) =>
                /\ Cardinality(ChildE(i)) < Cardinality(edStack[i].E)
                /\ Cardinality(ChildV(i)) <=
                       Cardinality(edStack[i].V) - Cardinality(edStack[i].C) + 1
    /\ Len(edStack) <= Cardinality(inE)
    /\ edSteps <= 2 * Cardinality(inE) + 1
    /\ edStatus = "running" => pc \in {"ed_call", "ed_ret"}
    /\ (edStatus = "running" /\ pc = "ed_call") => CallCanProceed
    /\ (edStatus = "running" /\ pc = "ed_ret") =>
          ENABLED (EdmondsExpand \/ EdmondsExpandError)

\* A call that contracted a one-vertex cycle (a self-loop) into a fresh
\* synthetic vertex waits for a call on as many vertices, which in turn
\* contracted a two-vertex cycle and is entering its own recursive call.
C8_Witness ==
    /\ pc = "ed_call"
    /\ Len(edStack) = 2
    /\ Cardinality(edStack[1].C) = 1
    /\ Cardinality(edStack[2].C) = 2
    /\ Cardinality(edStack[2].V) = Cardinality(edStack[1].V)
    /\ edStack[1].vc \notin edStack[1].V

\* C9: every synthetic vertex v_c is distinct from every vertex of the
\* caller's V and from every synthetic vertex minted before it, so V' has
\* exactly |V| - |C| + 1 vertices.
C9_FreshSyntheticVertex ==
    \A i \in 1..Len(edStack) :
        /\ edStack[i].vc \notin inV
        /\ edStack[i].vc \notin edStack[i].V
        /\ \A j \in 1..Len(edStack) : j # i => edStack[j].vc # edStack[i].vc
        /\ HasChild(i) =>
              Cardinality(ChildV(i)) =
                  Cardinality(edStack[i].V) - Cardinality(edStack[i].C) + 1

UFRoot(x) == UFFind(uf.p, x).root

\* C10: find(a) = find(b) exactly when a and b are connected by the unions
\* made so far (initially: never, for a # b); find returns an element of its
\* argument's component; union returns True exactly when its arguments were
\* in different components before the call, and afterwards they share one.
C10_UnionFindComponents ==
    /\ \A a \in DOMAIN uf.p, b \in DOMAIN uf.p :
          UFRoot(a) = UFRoot(b) <=> ufComp[a] = ufComp[b]
    /\ ufLast.op = "find" =>
          /\ ufLast.root = UFRoot(ufLast.a)
          /\ ufComp[ufLast.root] = ufComp[ufLast.a]
    /\ ufLast.op = "union" =>
          /\ ufLast.ret <=> ufLast.apart
          /\ UFRoot(ufLast.a) = UFRoot(ufLast.b)

\* union has just returned False for two distinct elements that earlier
\* unions connected, in a forest with a tree of rank 2.
C10_Witness ==
    /\ ufLast.op = "union"
    /\ ~ufLast.ret
    /\ ufLast.a # ufLast.b
    /\ \E x \in DOMAIN uf.r : uf.r[x] = 2

====
